---- MODULE Spec2Model ----
(***************************************************************************)
(* Model of src/src/main.rs: a Yellowstone gRPC subscriber whose whole     *)
(* connect / subscribe / read loop runs as the operation of                *)
(* backoff::future::retry(ExponentialBackoff::default(), ...).             *)
(*                                                                         *)
(* Durations are milliseconds.  The backoff policy is the one the code     *)
(* selects with ExponentialBackoff::default() (backoff 0.4): its interval  *)
(* arithmetic is done in f64 nanoseconds there and in whole milliseconds   *)
(* (rounded down) here.                                                    *)
(***************************************************************************)
EXTENDS Integers, Sequences, FiniteSets, TLC

VARIABLES
    pc,               \* position of main / the retry future / the attempt
    env,              \* process environment read by Config::from_env
    config,           \* Config built by Config::from_env (line 182)
    zero_attempts,    \* value inside Arc<Mutex<bool>> (line 183)
    lock_held,        \* the tokio Mutex is locked (guard alive, 215-221)
    attempts,         \* number of attempts that have started (polled futures)
    notices,          \* number of "Retry to connect to the server" log lines
    now,              \* clock: ms since ExponentialBackoff::reset()
    current_interval, \* ExponentialBackoff.current_interval
    delay,            \* duration handed to the sleeper by the last retry
    result,           \* value the attempt's future resolved to
    handles,          \* live (subscribe_tx, stream) pairs
    opens,            \* number of "Stream opened" log lines
    outbound,         \* messages put on subscribe_tx of the live stream
    inbound,          \* items stream.next() has yielded in this attempt
    logged,           \* messages logged as "Received update" in this attempt
    stream_end,       \* how the while-let loop of this attempt ended
    request,          \* SubscribeRequest owned by the retry closure (186-210)
    sent,             \* the distinct requests passed to subscribe_with_request
    subscribes,       \* subscribe_with_request calls made by this attempt
    sleeps,           \* backoff delays that have elapsed
    connect_failures  \* attempts that ended in an Err of Config::connect

vars == << pc, config, zero_attempts, lock_held, attempts, notices, now,
           current_interval, delay, result, handles, opens, outbound,
           inbound, logged, stream_end, env, request, sent, subscribes,
           sleeps, connect_failures >>

(***************************************************************************)
(* Bounds of the model.                                                    *)
(***************************************************************************)
\* messages the environment delivers on one stream
MaxMsgs == 2
\* the random f64 of next_backoff is sampled at r / RandomSteps, r \in 0..RandomSteps
RandomSteps == 2

(***************************************************************************)
(* ExponentialBackoff::default()                                           *)
(***************************************************************************)
InitialInterval == 500
MaxInterval == 60000
MaxElapsedTime == 900000
MultiplierNum == 3
MultiplierDen == 2
RandomizationNum == 1
RandomizationDen == 2

(***************************************************************************)
(* The clock is observed at sample instants: every multiple of MaxInterval *)
(* within the elapsed-time budget, and one instant beyond the budget.      *)
(* A timer or an I/O wait ends at the first sample instant that is not     *)
(* earlier than its deadline.                                              *)
(***************************************************************************)
ClockSamples ==
    { k * MaxInterval : k \in 0 .. (MaxElapsedTime \div MaxInterval) }
        \cup { MaxElapsedTime + 1 }

SnapClock(t) ==
    IF t > MaxElapsedTime THEN MaxElapsedTime + 1
    ELSE CHOOSE s \in ClockSamples :
            /\ s >= t
            /\ \A u \in ClockSamples : u >= t => s <= u

(***************************************************************************)
(* Values                                                                  *)
(***************************************************************************)
\* what Config::from_env and Config::connect depend on in the environment:
\* YELLOWSTONE_GRPC_URL parses as an endpoint (with a usable TLS setup),
\* CA_CERTIFICATE is set, X_TOKEN is a valid header value, and the text of
\* one numeric setting (CONNECT_TIMEOUT_MS stands for all of them)
NumericTexts == {"unset", "garbage", "number"}
AllEnvs ==
    [ url_ok : BOOLEAN, ca_certificate : BOOLEAN, x_token_ok : BOOLEAN,
      tls_ok : BOOLEAN, connect_timeout_ms : NumericTexts ]
\* the environments explored: every combination with a well-formed numeric
\* setting, and the unset and the unparseable one without a CA path and with
\* a valid token and TLS setup (unset only next to a malformed URL)
Envs ==
    { e \in AllEnvs :
        \/ e.connect_timeout_ms = "number"
        \/ /\ ~e.ca_certificate /\ e.x_token_ok /\ e.tls_ok
           /\ (e.connect_timeout_ms = "garbage" \/ ~e.url_ok) }

\* lines 69-72: env::var(..).ok().and_then(|s| s.parse().ok())
ParseOptional(text) == IF text = "number" THEN "Some" ELSE "None"

\* a from_env that rejects a setting it cannot parse
FromEnvStrict(e) ==
    [ ok |-> e.connect_timeout_ms # "garbage",
      config |-> [ca_certificate |-> e.ca_certificate,
                  endpoint_ok |-> e.url_ok, x_token_ok |-> e.x_token_ok,
                  tls_ok |-> e.tls_ok,
                  connect_timeout_ms |-> ParseOptional(e.connect_timeout_ms)] ]
\* lines 60-118: Config::from_env always returns Ok(Self {..})
FromEnv(e) ==
    [ ok |-> TRUE,
      config |-> [ca_certificate |-> e.ca_certificate,
                  endpoint_ok |-> e.url_ok, x_token_ok |-> e.x_token_ok,
                  tls_ok |-> e.tls_ok,
                  connect_timeout_ms |-> ParseOptional(e.connect_timeout_ms)] ]

\* the Config fields Config::connect can fail on (lines 122-128)
Configs == { FromEnv(e).config : e \in Envs }
\* main before line 182: no Config yet
NoConfig ==
    [ca_certificate |-> FALSE, endpoint_ok |-> FALSE, x_token_ok |-> FALSE,
     tls_ok |-> FALSE, connect_timeout_ms |-> "None"]

\* SubscribeRequest built at lines 186-206: each map as its set of entries
Request ==
    [ accounts |-> { [name |-> "all", account |-> <<>>, owner |-> <<>>,
                      filters |-> <<>>] },
      slots    |-> { [name |-> "all", filter_by_commitment |-> FALSE,
                      interslot_updates |-> TRUE] } ]
\* SubscribeRequest::default(): main before line 186
DefaultRequest == [accounts |-> {}, slots |-> {}]

\* lines 210 and 227: request.clone()
CloneDropsSlots(req) == [req EXCEPT !.slots = {}]
CloneRequest(req) == req

UpdateKinds == {"Account", "Slot", "Ping"}
CreatedAtStates == {"valid", "none", "invalid"}
Messages == [kind : UpdateKinds, created_at : CreatedAtStates]

NoResult == [kind |-> "None", err |-> "-"]
OkResult == [kind |-> "Ok", err |-> "-"]
Transient(e) == [kind |-> "Transient", err |-> e]
Permanent(e) == [kind |-> "Permanent", err |-> e]

\* the `?` exits of Config::connect (123, 126, 127, 128) and its last line
AllConnectCauses == {"ca_read", "endpoint", "x_token", "tls_config", "transport"}

\* lines 126-128: the first builder step that rejects its input
BuildClientError(c) ==
    IF ~c.endpoint_ok THEN "endpoint"
    ELSE IF ~c.x_token_ok THEN "x_token"
    ELSE IF ~c.tls_ok THEN "tls_config"
    ELSE "none"

\* line 223: .map_err(backoff::Error::transient)
ConnectErrorPermanent(cause) == Permanent(cause)
ConnectError(cause) == Transient(cause)

\* lines 235, 237: `?` on anyhow::Error goes through From<E> for backoff::Error<E>
CreatedAtErrorPermanent(m) ==
    Permanent(IF m.created_at = "none" THEN "no created_at in the message"
              ELSE "failed to parse created_at")
CreatedAtError(m) ==
    Transient(IF m.created_at = "none" THEN "no created_at in the message"
              ELSE "failed to parse created_at")

\* lines 242-250: both exits of the while-let loop fall through to Ok(())
LoopResultErrIsTransient(end) ==
    IF end = "error" THEN Transient("stream error") ELSE OkResult
LoopResult(end) == OkResult

\* line 240 is the only thing done with a message that has a timestamp
LogUpdateFront(log, m) == <<m>> \o log
LogUpdate(log, m) == Append(log, m)

\* lines 231-247 never touch subscribe_tx
ResendRequest(out, m) == Append(out, out[1])
ControlAfter(out, m) == out

\* line 228: .expect("...") on the Err of subscribe_with_request panics
ExpectRetries(r) == [pc |-> "returned", result |-> Transient("subscribe")]
ExpectFailed(r) == [pc |-> "panicked", result |-> r]

\* lines 216-220: the flag is cleared by the first attempt, the notice is
\* logged by every other one
NoticesEveryAttempt(z, n) == n + 1
NoticesAfter(z, n) == IF z THEN n ELSE n + 1
FlagAfter(z) == FALSE

\* line 221: drop(zero_attempts) releases the lock
LockKept == TRUE
LockAfterDrop == FALSE

\* lines 223-229: a connect or an open stream does not touch the policy
ResetOnOpen(cur) == InitialInterval
IntervalOnOpen(cur) == cur

\* Retry::poll: a Some(duration) of next_backoff arms the sleeper
AfterBackoffNoSleep == "lock"
AfterBackoff == "sleep"

\* the attempt's locals (client, subscribe_tx, stream) drop when it returns
HandlesKept(h) == h
HandlesAfterReturn(h) == 0

(***************************************************************************)
(* ExponentialBackoff                                                      *)
(***************************************************************************)
\* get_random_value_from_interval with random = r / RandomSteps
GetRandomValueFromInterval(r, cur) ==
    LET delta == (cur * RandomizationNum) \div RandomizationDen
        min_interval == cur - delta
        max_interval == cur + delta
    IN  min_interval + (r * (max_interval - min_interval)) \div RandomSteps

IncrementUncapped(cur) == (cur * MultiplierNum) \div MultiplierDen
IncrementCurrentInterval(cur) ==
    IF cur * MultiplierNum >= MaxInterval * MultiplierDen
    THEN MaxInterval
    ELSE (cur * MultiplierNum) \div MultiplierDen

\* elapsed budget compared with the wrong field
WithinBudgetOfInterval(elapsed, d) == elapsed + d <= MaxInterval
WithinBudget(elapsed, d) == elapsed + d <= MaxElapsedTime

\* next_backoff: None once the budget is spent, else the randomized interval
NextBackoff(elapsed, cur, r) ==
    IF elapsed > MaxElapsedTime
    THEN [some |-> FALSE, delay |-> 0, current_interval |-> cur]
    ELSE LET d == GetRandomValueFromInterval(r, cur)
         IN  [some |-> WithinBudget(elapsed, d), delay |-> d,
              current_interval |-> IncrementCurrentInterval(cur)]

(***************************************************************************)
(* Initial state: main is about to call Config::from_env (line 182).       *)
(***************************************************************************)
Init ==
    /\ pc = "from_env"
    /\ env \in Envs
    /\ config = NoConfig
    /\ request = DefaultRequest
    /\ sent = {}
    /\ subscribes = 0
    /\ sleeps = 0
    /\ connect_failures = 0
    /\ zero_attempts = TRUE
    /\ lock_held = FALSE
    /\ attempts = 0
    /\ notices = 0
    /\ now = 0
    /\ current_interval = InitialInterval
    /\ delay = 0
    /\ result = NoResult
    /\ handles = 0
    /\ opens = 0
    /\ outbound = <<>>
    /\ inbound = <<>>
    /\ logged = <<>>
    /\ stream_end = "none"

\* lines 182-208: Config::from_env()?, the flag, the request, retry()
MainStartup ==
    /\ pc = "from_env"
    /\ IF FromEnv(env).ok
       THEN /\ config' = FromEnv(env).config
            /\ request' = Request
            /\ pc' = "lock"
       ELSE /\ pc' = "exit_err"
            /\ UNCHANGED << config, request >>
    /\ UNCHANGED << env, sent, sleeps, connect_failures, subscribes, opens,
                    zero_attempts, lock_held, attempts, notices, now,
                    current_interval, delay, result, handles, outbound,
                    inbound, logged, stream_end >>

\* line 215: zero_attempts.lock().await
AcquireFlag ==
    /\ pc = "lock"
    /\ ~lock_held
    /\ lock_held' = TRUE
    /\ attempts' = attempts + 1
    /\ pc' = "flag"
    /\ subscribes' = 0
    /\ UNCHANGED << env, request, sent, sleeps, connect_failures, opens, config, zero_attempts, notices, now, current_interval,
                    delay, result, handles, outbound, inbound, logged,
                    stream_end >>

\* lines 216-221: first-attempt bookkeeping, then drop(guard)
FirstAttemptBookkeeping ==
    /\ pc = "flag"
    /\ lock_held
    /\ zero_attempts' = (IF zero_attempts THEN FlagAfter(zero_attempts)
                         ELSE zero_attempts)
    /\ notices' = NoticesAfter(zero_attempts, notices)
    /\ lock_held' = LockAfterDrop
    /\ pc' = "connect"
    /\ UNCHANGED << env, request, sent, sleeps, connect_failures, subscribes, opens, config, attempts, now, current_interval, delay, result,
                    handles, outbound, inbound, logged, stream_end >>

\* time passes while the task waits for the file, the transport, the server
\* or the stream
Tick ==
    /\ \/ pc \in {"dial", "subscribe", "read"}
       \/ pc = "connect" /\ config.ca_certificate
    /\ \E t \in ClockSamples :
          /\ t > now
          /\ now' = t
    /\ UNCHANGED << env, request, sent, sleeps, connect_failures, subscribes, opens, pc, config, zero_attempts, lock_held, attempts, notices,
                    current_interval, delay, result, handles, outbound,
                    inbound, logged, stream_end >>

\* lines 122-125: tokio::fs::read(path).await? when a CA path is configured
ReadCaCertificate ==
    /\ pc = "connect"
    /\ config.ca_certificate
    /\ \E readable \in BOOLEAN :
          IF readable
          THEN pc' = "build" /\ UNCHANGED << result, connect_failures >>
          ELSE pc' = "returned" /\ result' = ConnectError("ca_read")
               /\ connect_failures' = connect_failures + 1
    /\ UNCHANGED << env, request, sent, sleeps, subscribes, opens, config, zero_attempts, lock_held, attempts, notices, now,
                    current_interval, delay, handles, outbound, inbound,
                    logged, stream_end >>

\* lines 126-163: build_from_shared(..)?.x_token(..)?.tls_config(..)? and the
\* optional settings, none of which waits
BuildClient ==
    /\ \/ pc = "build"
       \/ pc = "connect" /\ ~config.ca_certificate
    /\ IF BuildClientError(config) = "none"
       THEN pc' = "dial" /\ UNCHANGED << result, connect_failures >>
       ELSE pc' = "returned" /\ result' = ConnectError(BuildClientError(config))
            /\ connect_failures' = connect_failures + 1
    /\ UNCHANGED << env, request, sent, sleeps, subscribes, opens, config, zero_attempts, lock_held, attempts, notices, now,
                    current_interval, delay, handles, outbound, inbound,
                    logged, stream_end >>

\* line 165: builder.connect().await, then line 224
ConnectTransport ==
    /\ pc = "dial"
    /\ \E connected \in BOOLEAN :
          IF connected
          THEN pc' = "subscribe" /\ UNCHANGED << result, connect_failures >>
          ELSE pc' = "returned" /\ result' = ConnectError("transport")
               /\ connect_failures' = connect_failures + 1
    /\ UNCHANGED << env, request, sent, sleeps, subscribes, opens, config, zero_attempts, lock_held, attempts, notices, now,
                    current_interval, delay, handles, outbound, inbound,
                    logged, stream_end >>

\* lines 226-229: the request is sent and the duplex handle is bound
SubscribeOk ==
    /\ pc = "subscribe"
    /\ handles' = handles + 1
    /\ opens' = opens + 1
    /\ outbound' = << [type |-> "subscribe",
                        request |-> CloneRequest(CloneRequest(request))] >>
    /\ sent' = sent \cup { CloneRequest(CloneRequest(request)) }
    /\ subscribes' = subscribes + 1
    /\ current_interval' = IntervalOnOpen(current_interval)
    /\ inbound' = <<>>
    /\ logged' = <<>>
    /\ stream_end' = "none"
    /\ pc' = "read"
    /\ UNCHANGED << env, request, sleeps, connect_failures, config,
                    zero_attempts, lock_held, attempts, notices, now, delay,
                    result >>

\* line 228: .expect() on Err panics; nothing catches the panic
SubscribeFail ==
    /\ pc = "subscribe"
    /\ sent' = sent \cup { CloneRequest(CloneRequest(request)) }
    /\ subscribes' = subscribes + 1
    /\ pc' = ExpectFailed(result).pc
    /\ result' = ExpectFailed(result).result
    /\ UNCHANGED << env, request, sleeps, connect_failures, opens, config,
                    zero_attempts, lock_held, attempts, notices, now,
                    current_interval, delay, handles, outbound, inbound,
                    logged, stream_end >>

\* line 231: stream.next() yields Some(Ok(msg))
ReadMsg ==
    /\ pc = "read"
    /\ Len(inbound) < MaxMsgs
    /\ \E m \in Messages : inbound' = Append(inbound, m)
    /\ pc' = "handle"
    /\ UNCHANGED << env, request, sent, sleeps, connect_failures, subscribes, opens, config, zero_attempts, lock_held, attempts, notices, now,
                    current_interval, delay, result, handles, outbound,
                    logged, stream_end >>

\* lines 233-241: the Ok(msg) arm for the message just read
HandleMsg ==
    /\ pc = "handle"
    /\ LET m == inbound[Len(inbound)] IN
       IF m.created_at = "valid"
       THEN /\ logged' = LogUpdate(logged, m)
            /\ outbound' = ControlAfter(outbound, m)
            /\ pc' = "read"
            /\ UNCHANGED << result, handles >>
       ELSE /\ result' = CreatedAtError(m)
            /\ handles' = HandlesAfterReturn(handles)
            /\ pc' = "returned"
            /\ UNCHANGED << logged, outbound >>
    /\ UNCHANGED << env, request, sent, sleeps, connect_failures, subscribes, opens, config, zero_attempts, lock_held, attempts, notices, now,
                    current_interval, delay, inbound, stream_end >>

\* lines 242-245 then 249-250: Some(Err(_)) is logged, break, Ok(())
ReadErr ==
    /\ pc = "read"
    /\ stream_end' = "error"
    /\ result' = LoopResult("error")
    /\ handles' = HandlesAfterReturn(handles)
    /\ pc' = "returned"
    /\ UNCHANGED << env, request, sent, sleeps, connect_failures, subscribes, opens, config, zero_attempts, lock_held, attempts, notices, now,
                    current_interval, delay, outbound, inbound, logged >>

\* line 231 yields None, then 249-250: Ok(())
ReadEnd ==
    /\ pc = "read"
    /\ stream_end' = "eof"
    /\ result' = LoopResult("eof")
    /\ handles' = HandlesAfterReturn(handles)
    /\ pc' = "returned"
    /\ UNCHANGED << env, request, sent, sleeps, connect_failures, subscribes, opens, config, zero_attempts, lock_held, attempts, notices, now,
                    current_interval, delay, outbound, inbound, logged >>

\* Retry::poll on the attempt's result (line 208), then main's return (253)
RetryPoll ==
    /\ pc = "returned"
    /\ IF result.kind = "Ok" THEN
            /\ pc' = "exit_ok"
            /\ UNCHANGED << current_interval, delay, outbound, inbound, logged,
                            stream_end >>
       ELSE IF result.kind = "Permanent" THEN
            /\ pc' = "exit_err"
            /\ UNCHANGED << current_interval, delay, outbound, inbound, logged,
                            stream_end >>
       ELSE \E r \in 0 .. RandomSteps :
            LET nb == NextBackoff(now, current_interval, r) IN
            /\ current_interval' = nb.current_interval
            /\ IF nb.some
               THEN /\ delay' = nb.delay
                    /\ pc' = AfterBackoff
                    /\ outbound' = <<>>
                    /\ inbound' = <<>>
                    /\ logged' = <<>>
                    /\ stream_end' = "none"
               ELSE /\ pc' = "exit_err"
                    /\ UNCHANGED << delay, outbound, inbound, logged,
                                    stream_end >>
    /\ UNCHANGED << env, request, sent, sleeps, connect_failures, subscribes, opens, config, zero_attempts, lock_held, attempts, notices, now,
                    result, handles >>

\* the sleeper's delay elapses; the next attempt's future is polled
Sleep ==
    /\ pc = "sleep"
    /\ now' = SnapClock(now + delay)
    /\ result' = NoResult
    /\ pc' = "lock"
    /\ sleeps' = sleeps + 1
    /\ UNCHANGED << env, request, sent, connect_failures, subscribes, opens, config, zero_attempts, lock_held, attempts, notices,
                    current_interval, delay, handles, outbound, inbound,
                    logged, stream_end >>

Next ==
    \/ MainStartup
    \/ AcquireFlag
    \/ FirstAttemptBookkeeping
    \/ Tick
    \/ ReadCaCertificate
    \/ BuildClient
    \/ ConnectTransport
    \/ SubscribeOk
    \/ SubscribeFail
    \/ ReadMsg
    \/ HandleMsg
    \/ ReadErr
    \/ ReadEnd
    \/ RetryPoll
    \/ Sleep

Spec == Init /\ [][Next]_vars

(***************************************************************************)
(* Helpers of the properties                                               *)
(***************************************************************************)
IsPing(m) == m.kind = "Ping"
IsPong(c) == c.type = "pong"
LastInbound == inbound[Len(inbound)]
StreamEnded == stream_end \in {"error", "eof"}
Exited == pc \in {"exit_ok", "exit_err", "panicked"}
ConnectFailed == result.err \in AllConnectCauses
\* largest and smallest randomized interval around cur
MaxDelay(cur) == cur + (cur * RandomizationNum) \div RandomizationDen
MinDelay(cur) == cur - (cur * RandomizationNum) \div RandomizationDen

(***************************************************************************)
(* C1: whenever the message loop ends, by a stream error or by a clean end *)
(* of stream, the retry loop goes on (backoff sleep, new attempt): no      *)
(* stream end terminates it.                                               *)
(***************************************************************************)
C1_StreamEndReconnects == StreamEnded => ~Exited

(***************************************************************************)
(* C2: every Ping read from the stream has exactly one pong on the         *)
(* outbound sender before the next message is read.                        *)
(***************************************************************************)
C2_PongPerPing ==
    pc = "read" =>
        Len(SelectSeq(outbound, IsPong)) = Len(SelectSeq(inbound, IsPing))

(***************************************************************************)
(* C3: a message that fails per-message decoding (no created_at, or one    *)
(* that does not convert) is skipped: the stream stays open and the        *)
(* dispatcher goes back to reading it.                                     *)
(***************************************************************************)
C3_MalformedSkipped ==
    (pc # "handle" /\ inbound # <<>> /\ LastInbound.created_at # "valid")
        => (pc = "read" /\ handles = 1)

C6_OneHandleSequentialAttempts ==
    /\ handles <= 1
    /\ pc \in {"read", "handle"} => handles = 1
    /\ pc \in {"from_env", "lock", "flag", "connect", "build", "dial",
              "subscribe", "returned", "sleep"}
            => handles = 0

C6_Witness == pc = "read" /\ opens >= 2 /\ handles = 1

(***************************************************************************)
(* C7: every failure of Config::connect, whatever its cause, reaches the   *)
(* retry future as a transient error, never as a permanent one.            *)
(***************************************************************************)
C7_ConnectFailuresTransient ==
    \A cause \in AllConnectCauses :
        result.err = cause => result.kind = "Transient"

C7_Witness == pc = "sleep" /\ result = Transient("endpoint") /\ attempts >= 2

(***************************************************************************)
(* C8: messages are handled in the order the stream yields them: what has  *)
(* been logged is a prefix of what has been read, every message read has   *)
(* been handled before the next one is read, and exactly one is pending    *)
(* while one is being handled.                                             *)
(***************************************************************************)
C8_InOrder ==
    /\ Len(logged) <= Len(inbound)
    /\ logged = SubSeq(inbound, 1, Len(logged))
    /\ pc = "read" => Len(logged) = Len(inbound)
    /\ pc = "handle" => Len(inbound) = Len(logged) + 1

C8_Witness ==
    /\ pc = "read"
    /\ Len(logged) >= 2
    /\ logged[1] # logged[2]

(***************************************************************************)
(* C9: after a stream-level error the attempt's result, as the retry       *)
(* future sees it, is an error.                                            *)
(***************************************************************************)
C9_StreamErrorReturnsError ==
    stream_end = "error" => result.kind \in {"Transient", "Permanent"}

(***************************************************************************)
(* C10: a loop ended by a stream error and a loop ended by end of stream   *)
(* hand the same result to the retry future, which takes the same step:    *)
(* both are Ok(()), and the only step left is the return of main.          *)
(***************************************************************************)
C10_EndsReportedIdentically ==
    StreamEnded => (result = OkResult /\ pc \in {"returned", "exit_ok"})

C10_Witness == pc = "exit_ok" /\ stream_end = "error" /\ Len(logged) >= 1

(***************************************************************************)
(* Helpers of the properties that follow                                   *)
(***************************************************************************)
IsSubscribe(c) == c.type = "subscribe"
\* attempts that have been through the first-attempt bookkeeping
Bookkept == IF pc = "flag" THEN attempts - 1 ELSE attempts
\* next_backoff calls that returned Some(duration)
BackoffCalls == IF pc = "sleep" THEN sleeps + 1 ELSE sleeps
RECURSIVE IntervalAfter(_)
IntervalAfter(k) ==
    IF k = 0 THEN InitialInterval
    ELSE IncrementCurrentInterval(IntervalAfter(k - 1))
CreatedAtFailed ==
    pc # "handle" /\ inbound # <<>> /\ LastInbound.created_at # "valid"

(***************************************************************************)
(* C11: a failed subscribe_with_request is not turned into a retry: the    *)
(* step that leaves the subscribe call without opening a stream ends in    *)
(* the panic, leaves the attempt's result and the backoff policy as they   *)
(* were, and nothing happens after it (no sleep, no further attempt).      *)
(***************************************************************************)
C11_SubscribeFailureUnrecoverable ==
    [][ /\ (pc = "subscribe" /\ pc' # "subscribe" /\ opens' = opens) =>
              /\ pc' = "panicked"
              /\ result' = result
              /\ UNCHANGED << current_interval, delay, sleeps, attempts >>
        /\ pc = "panicked" => FALSE
      ]_vars

C11_Witness == pc = "panicked" /\ attempts >= 2 /\ sleeps >= 1

(***************************************************************************)
(* C12: the flag is true exactly until the first attempt has done its      *)
(* bookkeeping and false ever after, and the "retrying" notice has been    *)
(* logged once by every attempt but the first.                             *)
(***************************************************************************)
C12_NoticeOnEveryRetryOnly ==
    /\ zero_attempts = (Bookkept = 0)
    /\ notices = IF Bookkept = 0 THEN 0 ELSE Bookkept - 1

C12_Witness ==
    pc = "connect" /\ attempts = 3 /\ notices = 2 /\ ~zero_attempts

(***************************************************************************)
(* C13: the lock is held only between lock().await and drop(guard): it is  *)
(* free while an attempt connects, subscribes, reads or sleeps, and after  *)
(* an attempt has returned, with an error or not.                          *)
(***************************************************************************)
C13_LockOnlyDuringBookkeeping == lock_held <=> pc = "flag"

C13_Witness ==
    pc = "returned" /\ result.kind = "Transient" /\ ~lock_held /\ attempts >= 2

(***************************************************************************)
(* C14: an attempt calls subscribe_with_request at most once, not before   *)
(* its connect has succeeded and not at all when its connect failed; once  *)
(* the connect succeeded it has called it exactly once, and the open       *)
(* stream carries exactly one subscribe request, its first message.        *)
(***************************************************************************)
C14_OneSubscribePerConnection ==
    /\ subscribes <= 1
    /\ pc \in {"flag", "connect", "build", "dial", "subscribe"}
            => subscribes = 0
    /\ pc \in {"read", "handle", "panicked"} => subscribes = 1
    /\ (ConnectFailed /\ pc \in {"returned", "sleep", "exit_err"})
            => subscribes = 0
    /\ pc \in {"read", "handle"} =>
            /\ Len(SelectSeq(outbound, IsSubscribe)) = 1
            /\ IsSubscribe(outbound[1])

C14_Witness ==
    pc = "read" /\ opens >= 2 /\ Len(logged) >= 1 /\ subscribes = 1

(***************************************************************************)
(* C15: the request the closure owns, and every request handed to          *)
(* subscribe_with_request, is the one built at startup: one account filter *)
(* "all" with empty lists and one slot filter "all" with                   *)
(* filter_by_commitment = false and interslot_updates = true; so all the   *)
(* requests sent are equal.                                                *)
(***************************************************************************)
C15_RequestNeverChanges ==
    LET built ==
          [ accounts |-> { [name |-> "all", account |-> <<>>,
                            owner |-> <<>>, filters |-> <<>>] },
            slots    |-> { [name |-> "all", filter_by_commitment |-> FALSE,
                            interslot_updates |-> TRUE] } ]
    IN  /\ pc # "from_env" => request = built
        /\ sent \subseteq {built}
        /\ \A i \in 1 .. Len(outbound) :
              IsSubscribe(outbound[i]) => outbound[i].request = built

C15_Witness == pc = "read" /\ opens >= 2 /\ sent = {Request}

(***************************************************************************)
(* C16: one sleep lies between any two consecutive attempts and none       *)
(* before the first; so when the connect succeeds for the first time after *)
(* n failed connects, exactly n sleeps have elapsed, and once the stream   *)
(* is open exactly one open has been logged.                               *)
(***************************************************************************)
C16_SleepsBeforeFirstOpen ==
    /\ attempts = 0 => sleeps = 0
    /\ (attempts >= 1 /\ pc # "lock") => sleeps = attempts - 1
    /\ (pc \in {"subscribe", "read", "handle"}
          /\ attempts = connect_failures + 1) =>
            /\ sleeps = connect_failures
            /\ opens = IF pc = "subscribe" THEN 0 ELSE 1

C16_Witness ==
    /\ pc = "read"
    /\ connect_failures = 3
    /\ attempts = 4
    /\ sleeps = 3
    /\ opens = 1

(***************************************************************************)
(* C17: nothing resets the backoff policy: its current interval is always  *)
(* the initial interval advanced once per retry made since the loop        *)
(* started, whether or not a stream was opened in between, and the elapsed *)
(* time it measures never goes back.                                       *)
(***************************************************************************)
C17_BackoffNeverReset ==
    /\ [](pc # "exit_err" => current_interval = IntervalAfter(BackoffCalls))
    /\ [][now' >= now]_vars

C17_Witness ==
    /\ pc = "sleep"
    /\ opens >= 1
    /\ connect_failures >= 2
    /\ result.err = "no created_at in the message"
    /\ delay > MaxDelay(InitialInterval)

C19_CreatedAtFailureIsTransient ==
    /\ [](CreatedAtFailed =>
            /\ result.kind = "Transient"
            /\ ~ConnectFailed
            /\ pc \in {"returned", "exit_err"}
            /\ logged = SubSeq(inbound, 1, Len(inbound) - 1)
            /\ handles = 0)
    /\ [][ (CreatedAtFailed /\ pc = "returned") =>
              /\ pc' \in {"sleep", "exit_err"}
              /\ now <= MaxElapsedTime =>
                    current_interval' =
                        IncrementCurrentInterval(current_interval)
         ]_vars

C19_Witness ==
    /\ pc = "sleep"
    /\ result.err = "failed to parse created_at"
    /\ opens >= 1
    /\ handles = 0

====
